---- MODULE Spec2Model ----
(***************************************************************************)
(* Model of the voice-search backend (src/voiceapi.py): the intent-phrase  *)
(* store kept in intent_phrases.json, the phrase cleaner, and the          *)
(* transcription log kept in transcriptions.json.                          *)
(*                                                                         *)
(* A text is a sequence of one-character strings, so that trimming, word   *)
(* boundaries and letter case are computed, not assumed.                   *)
(***************************************************************************)
EXTENDS Integers, Sequences, FiniteSets, TLC

VARIABLES
    phrasesFile,   \* intent_phrases.json: [st: absent | ok | corrupt, kw: the search_keywords list]
    transFile,     \* transcriptions.json: [st: absent | ok | corrupt, recs: the list of records]
    disk,          \* "reliable": every write completes; "faulty": a write may fail
    req,           \* the request handled last
    resp,          \* the response to it
    nAdds,         \* number of successful adds so far
    issued,        \* the ids successful adds have returned so far
    everDeleted,   \* whether a delete has succeeded so far
    appended,      \* the records save_transcription has returned, in order
    nTrans,        \* number of /trans requests so far (uuid and timestamp source)
    calls          \* the concurrent add calls in flight: caller -> local state

vars == <<phrasesFile, transFile, disk, req, resp, nAdds, issued, everDeleted, appended, nTrans, calls>>

-----------------------------------------------------------------------------
(* Bounds *)

\* successful adds in one behaviour (ids are at most this)
MaxAdds == 3
\* /trans requests in one behaviour
MaxTrans == 3

-----------------------------------------------------------------------------
(* Characters and strings *)

Letters == {"a", "b", "c", "A", "B", "C"}
Whitespace == {" "}

\* str.lower() on one character
Lower(c) ==
    CASE c = "A" -> "a"
      [] c = "B" -> "b"
      [] c = "C" -> "c"
      [] OTHER -> c

\* \w of the re module
IsWord(c) == c \in Letters

\* \s of the re module
IsSpace(c) == c \in Whitespace

LowerStr(s) == [i \in 1..Len(s) |-> Lower(s[i])]

RECURSIVE LStrip(_)
LStrip(s) == IF s # <<>> /\ IsSpace(Head(s)) THEN LStrip(Tail(s)) ELSE s

RECURSIVE RStrip(_)
RStrip(s) == IF s # <<>> /\ IsSpace(s[Len(s)]) THEN RStrip(SubSeq(s, 1, Len(s) - 1)) ELSE s

\* str.strip()
Strip(s) == RStrip(LStrip(s))

-----------------------------------------------------------------------------
(* clean_text_remove_intent_phrases *)

\* \b between text[i-1] and text[i] (1-based; outside the text counts as a non-word character)
WordBoundary(text, i) ==
    LET before == i > 1 /\ i - 1 <= Len(text) /\ IsWord(text[i - 1])
        after  == i >= 1 /\ i <= Len(text) /\ IsWord(text[i])
    IN  before # after

\* re.compile(r"\b" + re.escape(phrase) + r"\b", flags=re.IGNORECASE) matches at position i
MatchAt(phrase, text, i) ==
    /\ i + Len(phrase) - 1 <= Len(text)
    /\ WordBoundary(text, i)
    /\ \A k \in 1..Len(phrase) : Lower(text[i + k - 1]) = Lower(phrase[k])
    /\ WordBoundary(text, i + Len(phrase))

\* pattern.sub(" ", text): leftmost non-overlapping matches, scanning from position i
RECURSIVE SubFrom(_, _, _)
SubFrom(phrase, text, i) ==
    IF i > Len(text) THEN <<>>
    ELSE IF MatchAt(phrase, text, i)
         THEN <<" ">> \o SubFrom(phrase, text, i + Len(phrase))
         ELSE <<text[i]>> \o SubFrom(phrase, text, i + 1)

RemovePhrase(phrase, text) ==
    IF phrase = <<>> THEN text ELSE SubFrom(phrase, text, 1)

\* the for loop over intent_phrases
RECURSIVE RemoveAll(_, _)
RemoveAll(phrases, text) ==
    IF phrases = <<>> THEN text
    ELSE RemoveAll(Tail(phrases), RemovePhrase(Head(phrases), text))

\* re.sub(r"\s+", " ", s)
RECURSIVE CollapseSpaces(_)
CollapseSpaces(s) ==
    IF s = <<>> THEN <<>>
    ELSE IF IsSpace(Head(s))
         THEN <<" ">> \o CollapseSpaces(LStrip(s))
         ELSE <<Head(s)>> \o CollapseSpaces(Tail(s))

clean_text_remove_intent_phrases(text, intent_phrases) ==
    IF text = <<>> THEN <<>>
    ELSE Strip(CollapseSpaces(RemoveAll(intent_phrases, text)))

-----------------------------------------------------------------------------
(* load_intent_phrases *)

\* a load that leaves the phrases in the order of the file
SortLongestFirst_Unsorted(phrases) == phrases

\* list.sort(key=len, reverse=True): stable, so equal lengths keep their order
RECURSIVE InsertByLen(_, _)
InsertByLen(sorted, p) ==
    IF sorted = <<>> THEN <<p>>
    ELSE IF Len(Head(sorted)) >= Len(p)
         THEN <<Head(sorted)>> \o InsertByLen(Tail(sorted), p)
         ELSE <<p>> \o sorted

RECURSIVE SortLongestFirst(_)
SortLongestFirst(phrases) ==
    IF phrases = <<>> THEN <<>>
    ELSE InsertByLen(SortLongestFirst(SubSeq(phrases, 1, Len(phrases) - 1)),
                     phrases[Len(phrases)])

\* the 'value' of every keyword, stripped, empty ones dropped
RECURSIVE ExtractValues(_)
ExtractValues(kw) ==
    IF kw = <<>> THEN <<>>
    ELSE LET v == Strip(Head(kw).value)
         IN  (IF v # <<>> THEN <<v>> ELSE <<>>) \o ExtractValues(Tail(kw))

load_intent_phrases(file) ==
    IF file.st # "ok" THEN <<>>
    ELSE SortLongestFirst(ExtractValues(file.kw))

-----------------------------------------------------------------------------
(* The files on disk *)

AbsentFile == [st |-> "absent", kw |-> <<>>]
CorruptFile == [st |-> "corrupt", kw |-> <<>>]

\* what a write can do: complete; fail in open(), before the file is touched;
\* fail in json.dump, after open(filepath, "w") has truncated the file
WriteOutcomes == IF disk = "reliable" THEN {"written"} ELSE {"written", "open_failed", "dump_failed"}

\* save_intent_phrases: the file afterwards, and the boolean it returns
save_intent_phrases(file, intent_phrases, outcome) ==
    CASE outcome = "written"     -> [file |-> [st |-> "ok", kw |-> intent_phrases], ok |-> TRUE]
      [] outcome = "open_failed" -> [file |-> file, ok |-> FALSE]
      [] OTHER                   -> [file |-> CorruptFile, ok |-> FALSE]

Max(S) == CHOOSE x \in S : \A y \in S : y <= x

IdsOf(kw) == {kw[i].id : i \in 1..Len(kw)}

\* get_next_id as a count of the entries, not their largest id
get_next_id_ByCount(intent_phrases) == Len(intent_phrases) + 1

get_next_id(intent_phrases) ==
    IF intent_phrases = <<>> THEN 1
    ELSE Max(IdsOf(intent_phrases)) + 1

-----------------------------------------------------------------------------
(* Requests and responses *)

NoPhrase == [id |-> 0, value |-> <<>>]

Response(status, detail) ==
    [status |-> status, detail |-> detail, phrase |-> NoPhrase, data |-> <<>>,
     raw_text |-> <<>>, cleaned_text |-> <<>>, transcription_id |-> 0]

Request(op, phrase, id) == [op |-> op, phrase |-> phrase, id |-> id]

\* the phrases a client submits: blank, padded, two letter cases of one word, two-word phrases
PhraseInputs ==
    { <<" ">>, <<"c">>, <<" ", "c">>, <<"C">>, <<"a", " ", "b">>, <<"b", " ", "c">> }

\* the ids a client names
PhraseIds == 1..MaxAdds

-----------------------------------------------------------------------------
(* The phrase endpoints, one request handled at a time *)

\* GET /intent-phrases
get_intent_phrases ==
    /\ req' = Request("list", <<>>, 0)
    /\ resp' = CASE phrasesFile.st = "absent"  -> Response(200, "ok")
                 [] phrasesFile.st = "ok"      -> [Response(200, "ok") EXCEPT !.data = phrasesFile.kw]
                 [] OTHER                      -> Response(500, "Error reading intent phrases")
    /\ UNCHANGED <<phrasesFile, transFile, disk, nAdds, issued, everDeleted, appended, nTrans, calls>>

\* add_intent_phrase comparing the values as written, without lower()
AddResult_CaseSensitive(file, input, outcome) ==
    LET phrase == Strip(input)
        data == IF file.st = "ok" THEN file.kw ELSE <<>>
        existing_phrases == {data[i].value : i \in 1..Len(data)}
        new_phrase == [id |-> get_next_id(data), value |-> phrase]
        saved == save_intent_phrases(file, Append(data, new_phrase), outcome)
    IN  IF phrase = <<>>
        THEN [file |-> file, resp |-> Response(400, "Phrase cannot be empty")]
        ELSE IF file.st = "corrupt"
        THEN [file |-> file, resp |-> Response(500, "Error adding intent phrase")]
        ELSE IF phrase \in existing_phrases
        THEN [file |-> file, resp |-> Response(400, "Phrase already exists")]
        ELSE IF saved.ok
        THEN [file |-> saved.file,
              resp |-> [Response(200, "Phrase added successfully") EXCEPT !.phrase = new_phrase]]
        ELSE [file |-> saved.file, resp |-> Response(500, "Failed to save phrase")]

\* add_intent_phrase putting the new entry first
AddResult_Prepend(file, input, outcome) ==
    LET phrase == Strip(input)
        data == IF file.st = "ok" THEN file.kw ELSE <<>>
        existing_phrases == {LowerStr(data[i].value) : i \in 1..Len(data)}
        new_phrase == [id |-> get_next_id(data), value |-> phrase]
        saved == save_intent_phrases(file, <<new_phrase>> \o data, outcome)
    IN  IF phrase = <<>>
        THEN [file |-> file, resp |-> Response(400, "Phrase cannot be empty")]
        ELSE IF file.st = "corrupt"
        THEN [file |-> file, resp |-> Response(500, "Error adding intent phrase")]
        ELSE IF LowerStr(phrase) \in existing_phrases
        THEN [file |-> file, resp |-> Response(400, "Phrase already exists")]
        ELSE IF saved.ok
        THEN [file |-> saved.file,
              resp |-> [Response(200, "Phrase added successfully") EXCEPT !.phrase = new_phrase]]
        ELSE [file |-> saved.file, resp |-> Response(500, "Failed to save phrase")]

\* the outcome of POST /intent-phrases on `file`: the file afterwards and the response
AddResult(file, input, outcome) ==
    LET phrase == Strip(input)
        data == IF file.st = "ok" THEN file.kw ELSE <<>>
        existing_phrases == {LowerStr(data[i].value) : i \in 1..Len(data)}
        new_phrase == [id |-> get_next_id(data), value |-> phrase]
        saved == save_intent_phrases(file, Append(data, new_phrase), outcome)
    IN  IF phrase = <<>>
        THEN [file |-> file, resp |-> Response(400, "Phrase cannot be empty")]
        ELSE IF file.st = "corrupt"
        THEN [file |-> file, resp |-> Response(500, "Error adding intent phrase")]
        ELSE IF LowerStr(phrase) \in existing_phrases
        THEN [file |-> file, resp |-> Response(400, "Phrase already exists")]
        ELSE IF saved.ok
        THEN [file |-> saved.file,
              resp |-> [Response(200, "Phrase added successfully") EXCEPT !.phrase = new_phrase]]
        ELSE [file |-> saved.file, resp |-> Response(500, "Failed to save phrase")]

add_intent_phrase ==
    \E input \in PhraseInputs, outcome \in WriteOutcomes :
        LET r == AddResult(phrasesFile, input, outcome)
        IN  /\ r.resp.status = 200 => nAdds < MaxAdds
            /\ req' = Request("add", input, 0)
            /\ phrasesFile' = r.file
            /\ resp' = r.resp
            /\ nAdds' = IF r.resp.status = 200 THEN nAdds + 1 ELSE nAdds
            /\ issued' = IF r.resp.status = 200 THEN issued \cup {r.resp.phrase.id} ELSE issued
            /\ UNCHANGED <<transFile, disk, everDeleted, appended, nTrans, calls>>

\* a delete by position in the list, not by id
WithoutId_ByPosition(kw, phrase_id) ==
    IF phrase_id \in 1..Len(kw)
    THEN SubSeq(kw, 1, phrase_id - 1) \o SubSeq(kw, phrase_id + 1, Len(kw))
    ELSE kw

\* [p for p in data["search_keywords"] if p.get("id") != phrase_id]
RECURSIVE WithoutId(_, _)
WithoutId(kw, phrase_id) ==
    IF kw = <<>> THEN <<>>
    ELSE (IF Head(kw).id # phrase_id THEN <<Head(kw)>> ELSE <<>>) \o WithoutId(Tail(kw), phrase_id)

\* the outcome of DELETE /intent-phrases/{phrase_id} on `file`
DeleteResult(file, phrase_id, outcome) ==
    LET remaining == WithoutId(file.kw, phrase_id)
        saved == save_intent_phrases(file, remaining, outcome)
    IN  IF file.st = "absent"
        THEN [file |-> file, resp |-> Response(404, "No intent phrases found")]
        ELSE IF file.st = "corrupt"
        THEN [file |-> file, resp |-> Response(500, "Error deleting intent phrase")]
        ELSE IF Len(remaining) = Len(file.kw)
        THEN [file |-> file, resp |-> Response(404, "Phrase not found")]
        ELSE IF saved.ok
        THEN [file |-> saved.file, resp |-> Response(200, "Phrase deleted successfully")]
        ELSE [file |-> saved.file, resp |-> Response(500, "Failed to delete phrase")]

delete_intent_phrase ==
    \E phrase_id \in PhraseIds, outcome \in WriteOutcomes :
        LET r == DeleteResult(phrasesFile, phrase_id, outcome)
        IN  /\ req' = Request("delete", <<>>, phrase_id)
            /\ phrasesFile' = r.file
            /\ resp' = r.resp
            /\ everDeleted' = (everDeleted \/ r.resp.status = 200)
            /\ UNCHANGED <<transFile, disk, nAdds, issued, appended, nTrans, calls>>

\* an update that drops the entry and appends it again with the new value
WithValue_MoveToEnd(kw, phrase_id, new_phrase) ==
    LET Others(e) == e.id # phrase_id
    IN  SelectSeq(kw, Others) \o <<[id |-> phrase_id, value |-> new_phrase]>>

\* the for loop of update_intent_phrase: the first entry with the id gets the new value
RECURSIVE WithValue(_, _, _)
WithValue(kw, phrase_id, new_phrase) ==
    IF kw = <<>> THEN <<>>
    ELSE IF Head(kw).id = phrase_id
         THEN <<[Head(kw) EXCEPT !.value = new_phrase]>> \o Tail(kw)
         ELSE <<Head(kw)>> \o WithValue(Tail(kw), phrase_id, new_phrase)

\* the outcome of PUT /intent-phrases/{phrase_id} on `file`
UpdateResult(file, phrase_id, input, outcome) ==
    LET new_phrase == Strip(input)
        phrase_found == phrase_id \in IdsOf(file.kw)
        saved == save_intent_phrases(file, WithValue(file.kw, phrase_id, new_phrase), outcome)
    IN  IF new_phrase = <<>>
        THEN [file |-> file, resp |-> Response(400, "Phrase cannot be empty")]
        ELSE IF file.st = "absent"
        THEN [file |-> file, resp |-> Response(404, "No intent phrases found")]
        ELSE IF file.st = "corrupt"
        THEN [file |-> file, resp |-> Response(500, "Error updating intent phrase")]
        ELSE IF ~phrase_found
        THEN [file |-> file, resp |-> Response(404, "Phrase not found")]
        ELSE IF saved.ok
        THEN [file |-> saved.file, resp |-> Response(200, "Phrase updated successfully")]
        ELSE [file |-> saved.file, resp |-> Response(500, "Failed to update phrase")]

update_intent_phrase ==
    \E phrase_id \in PhraseIds, input \in PhraseInputs, outcome \in WriteOutcomes :
        LET r == UpdateResult(phrasesFile, phrase_id, input, outcome)
        IN  /\ req' = Request("update", input, phrase_id)
            /\ phrasesFile' = r.file
            /\ resp' = r.resp
            /\ UNCHANGED <<transFile, disk, nAdds, issued, everDeleted, appended, nTrans, calls>>

-----------------------------------------------------------------------------
(* The transcription log and POST /trans *)

\* what the speech recogniser returns when it understands the audio
Texts ==
    { <<"a", " ", "c", " ", "b">>, <<"a", " ", "b", " ", "c">>, <<"C", " ", "a">> }

\* recognize_google raising sr.UnknownValueError or sr.RequestError; any other
\* exception of the try block (decoding the upload, exporting the wav)
ProviderFailures == {"UnknownValueError", "RequestError", "Exception"}

\* what the try block up to recognize_google comes to: a transcript or an exception
ProviderOutcomes ==
    {[kind |-> "transcript", text |-> t] : t \in Texts}
        \cup {[kind |-> f, text |-> <<>>] : f \in ProviderFailures}

\* save_transcription: the file afterwards and the record returned ("saved" false: None)
save_transcription(file, raw_text, cleaned_text, audio_file_path, uuid, now, outcome) ==
    LET transcription_data ==
            [id |-> uuid, timestamp |-> now, audio_file_path |-> audio_file_path,
             raw_text |-> raw_text, cleaned_text |-> cleaned_text]
        \* a file that is missing, or that json.load cannot parse, counts as an empty list
        transcriptions == IF file.st = "ok" THEN file.recs ELSE <<>>
    IN  CASE outcome = "written" ->
                [file |-> [st |-> "ok", recs |-> Append(transcriptions, transcription_data)],
                 saved |-> TRUE, data |-> transcription_data]
          [] outcome = "open_failed" ->
                [file |-> file, saved |-> FALSE, data |-> transcription_data]
          [] OTHER ->
                [file |-> [st |-> "corrupt", recs |-> <<>>], saved |-> FALSE,
                 data |-> transcription_data]

\* a /trans that logs a record with empty texts when the recogniser fails
TransResult_LogsFailures(file, phrases, provided, n, outcome) ==
    LET raw_text == provided.text
        cleaned_text == clean_text_remove_intent_phrases(raw_text, load_intent_phrases(phrases))
        s == save_transcription(file, raw_text, cleaned_text, n, n, n, outcome)
        ok == [Response(200, IF s.saved THEN "Transcription saved successfully"
                             ELSE "Transcription completed but failed to save")
                 EXCEPT !.raw_text = raw_text, !.cleaned_text = cleaned_text,
                        !.transcription_id = IF s.saved THEN s.data.id ELSE 0]
    IN  CASE provided.kind = "UnknownValueError" ->
                [file |-> s.file, saved |-> s.saved, data |-> s.data,
                 resp |-> Response(200, "Could not understand the audio")]
          [] provided.kind = "RequestError" ->
                [file |-> s.file, saved |-> s.saved, data |-> s.data,
                 resp |-> Response(200, "Speech recognition service error")]
          [] provided.kind = "Exception" ->
                [file |-> file, saved |-> FALSE, data |-> s.data,
                 resp |-> Response(200, "Error during transcription")]
          [] OTHER ->
                [file |-> s.file, saved |-> s.saved, data |-> s.data, resp |-> ok]

\* the outcome of POST /trans: the log afterwards, the response, the record saved
TransResult(file, phrases, provided, n, outcome) ==
    LET raw_text == provided.text
        cleaned_text == clean_text_remove_intent_phrases(raw_text, load_intent_phrases(phrases))
        s == save_transcription(file, raw_text, cleaned_text, n, n, n, outcome)
        ok == [Response(200, IF s.saved THEN "Transcription saved successfully"
                             ELSE "Transcription completed but failed to save")
                 EXCEPT !.raw_text = raw_text, !.cleaned_text = cleaned_text,
                        !.transcription_id = IF s.saved THEN s.data.id ELSE 0]
    IN  CASE provided.kind = "UnknownValueError" ->
                [file |-> file, saved |-> FALSE, data |-> s.data,
                 resp |-> Response(200, "Could not understand the audio")]
          [] provided.kind = "RequestError" ->
                [file |-> file, saved |-> FALSE, data |-> s.data,
                 resp |-> Response(200, "Speech recognition service error")]
          [] provided.kind = "Exception" ->
                [file |-> file, saved |-> FALSE, data |-> s.data,
                 resp |-> Response(200, "Error during transcription")]
          [] OTHER ->
                [file |-> s.file, saved |-> s.saved, data |-> s.data, resp |-> ok]

transcribe_both ==
    /\ nTrans < MaxTrans
    /\ \E provided \in ProviderOutcomes, outcome \in WriteOutcomes :
        LET r == TransResult(transFile, phrasesFile, provided, nTrans + 1, outcome)
        IN  /\ req' = [op |-> "trans", phrase |-> provided.text, id |-> 0,
                        provided |-> provided.kind]
            /\ transFile' = r.file
            /\ resp' = r.resp
            /\ appended' = IF r.saved THEN Append(appended, r.data) ELSE appended
            /\ nTrans' = nTrans + 1
            /\ UNCHANGED <<phrasesFile, disk, nAdds, issued, everDeleted, calls>>

-----------------------------------------------------------------------------
(* Two add requests handled at the same time, step by step *)

Callers == {1, 2}

IdleCall == [pc |-> "idle", phrase |-> <<>>, data |-> <<>>, new_phrase |-> NoPhrase, status |-> 0]

\* the request arrives with its form field
Call(c) ==
    /\ calls[c].pc = "idle"
    /\ \E input \in PhraseInputs :
        calls' = [calls EXCEPT ![c] = [IdleCall EXCEPT !.pc = "validate", !.phrase = input]]
    /\ UNCHANGED <<phrasesFile, transFile, disk, req, resp, nAdds, issued, everDeleted, appended, nTrans>>

\* phrase = phrase.strip(); the empty check
Validate(c) ==
    /\ calls[c].pc = "validate"
    /\ LET phrase == Strip(calls[c].phrase)
       IN  calls' = [calls EXCEPT ![c] =
                IF phrase = <<>>
                THEN [@ EXCEPT !.pc = "done", !.status = 400]
                ELSE [@ EXCEPT !.pc = "load", !.phrase = phrase]]
    /\ UNCHANGED <<phrasesFile, transFile, disk, req, resp, nAdds, issued, everDeleted, appended, nTrans>>

\* os.path.exists, open and json.load
Load(c) ==
    /\ calls[c].pc = "load"
    /\ calls' = [calls EXCEPT ![c] =
            CASE phrasesFile.st = "absent" -> [@ EXCEPT !.pc = "check", !.data = <<>>]
              [] phrasesFile.st = "ok"     -> [@ EXCEPT !.pc = "check", !.data = phrasesFile.kw]
              [] OTHER                     -> [@ EXCEPT !.pc = "done", !.status = 500]]
    /\ UNCHANGED <<phrasesFile, transFile, disk, req, resp, nAdds, issued, everDeleted, appended, nTrans>>

\* the duplicate check, get_next_id and the append to the list read
Check(c) ==
    /\ calls[c].pc = "check"
    /\ LET data == calls[c].data
           existing_phrases == {LowerStr(data[i].value) : i \in 1..Len(data)}
           new_phrase == [id |-> get_next_id(data), value |-> calls[c].phrase]
       IN  calls' = [calls EXCEPT ![c] =
                IF LowerStr(calls[c].phrase) \in existing_phrases
                THEN [@ EXCEPT !.pc = "done", !.status = 400]
                ELSE [@ EXCEPT !.pc = "open", !.new_phrase = new_phrase,
                               !.data = Append(data, new_phrase)]]
    /\ UNCHANGED <<phrasesFile, transFile, disk, req, resp, nAdds, issued, everDeleted, appended, nTrans>>

\* open(filepath, "w") in save_intent_phrases: the file is created or truncated
Open(c) ==
    /\ calls[c].pc = "open"
    /\ phrasesFile' = CorruptFile
    /\ calls' = [calls EXCEPT ![c].pc = "dump"]
    /\ UNCHANGED <<transFile, disk, req, resp, nAdds, issued, everDeleted, appended, nTrans>>

\* json.dump and the close of the file: the list this caller holds is the file
Dump(c) ==
    /\ calls[c].pc = "dump"
    /\ phrasesFile' = [st |-> "ok", kw |-> calls[c].data]
    /\ calls' = [calls EXCEPT ![c] = [@ EXCEPT !.pc = "done", !.status = 200]]
    /\ UNCHANGED <<transFile, disk, req, resp, nAdds, issued, everDeleted, appended, nTrans>>

-----------------------------------------------------------------------------
(* Specifications *)

NoCalls == <<>>

InitCommon ==
    /\ phrasesFile \in {AbsentFile, [st |-> "ok", kw |-> <<>>]}
    /\ transFile = [st |-> "absent", recs |-> <<>>]
    /\ req = Request("none", <<>>, 0)
    /\ resp = Response(0, "none")
    /\ nAdds = 0
    /\ issued = {}
    /\ everDeleted = FALSE
    /\ appended = <<>>
    /\ nTrans = 0

\* the phrase endpoints, one request at a time, on storage whose writes may fail
Init == InitCommon /\ disk = "faulty" /\ calls = NoCalls

Next ==
    \/ get_intent_phrases
    \/ add_intent_phrase
    \/ delete_intent_phrase
    \/ update_intent_phrase

Spec == Init /\ [][Next]_vars

\* the same endpoints on storage whose writes complete
InitReliable == InitCommon /\ disk = "reliable" /\ calls = NoCalls

SpecReliable == InitReliable /\ [][Next]_vars

\* phrases are added and audio is transcribed, one request at a time
NextTrans ==
    \/ add_intent_phrase
    \/ transcribe_both

SpecTrans == InitReliable /\ [][NextTrans]_vars

\* audio is transcribed and logged, one request at a time, on storage whose writes may fail
NextLog == transcribe_both

SpecLog == Init /\ [][NextLog]_vars

\* two add requests in flight at once
InitConc == InitCommon /\ disk = "reliable" /\ calls = [c \in Callers |-> IdleCall]

NextConc ==
    \E c \in Callers :
        \/ Call(c)
        \/ Validate(c)
        \/ Load(c)
        \/ Check(c)
        \/ Open(c)
        \/ Dump(c)

SpecConc == InitConc /\ [][NextConc]_vars

-----------------------------------------------------------------------------
(* Properties of the phrase store *)

\* what list() shows: the stored entries, none for a missing or unreadable file
Stored(file) == IF file.st = "ok" THEN file.kw ELSE <<>>

MutatingOps == {"add", "update", "delete"}

\* C1: after any sequence of add, update and delete, one at a time, from an empty
\* or absent store, no two entries of the store have the same id.
C1_UniqueIds ==
    \A i, j \in 1..Len(Stored(phrasesFile)) :
        i # j => Stored(phrasesFile)[i].id # Stored(phrasesFile)[j].id

\* a store of two entries reached by an add that followed a delete
C1_Witness ==
    /\ req.op = "add" /\ resp.status = 200
    /\ everDeleted
    /\ Len(Stored(phrasesFile)) = 2

\* C2: after any sequence of add, update and delete, one at a time, no two entries
\* of the store have values that are equal when letter case is ignored, also when
\* update is given a value another entry holds.
C2_UniqueValues ==
    \A i, j \in 1..Len(Stored(phrasesFile)) :
        i # j => LowerStr(Stored(phrasesFile)[i].value) # LowerStr(Stored(phrasesFile)[j].value)

\* C8: a successful add gives the new entry the id max(ids in the store, default 0) + 1
\* and puts it after the existing entries; on a fresh store with no deletes the
\* n-th successful add returns id n.
C8_NextId ==
    [][ (req'.op = "add" /\ resp'.status = 200) =>
            LET old == Stored(phrasesFile)
                new_phrase == resp'.phrase
            IN  /\ \A i \in 1..Len(old) : old[i].id < new_phrase.id
                /\ new_phrase.id = 1 \/ new_phrase.id - 1 \in IdsOf(old)
                /\ phrasesFile'.st = "ok"
                /\ phrasesFile'.kw = Append(old, new_phrase)
                /\ ~everDeleted => new_phrase.id = nAdds'
      ]_vars

\* the third add in a row on a fresh store, no delete before it
C8_Witness ==
    /\ req.op = "add" /\ resp.status = 200
    /\ ~everDeleted
    /\ nAdds = 3
    /\ resp.phrase.id = 3
    /\ Len(Stored(phrasesFile)) = 3

\* C9: add with a value that is non-empty after trimming and matches no stored value
\* in any letter case succeeds and list() then has an entry with the trimmed value;
\* add with a value empty after trimming fails with "cannot be empty", add with a
\* value that matches a stored one in any letter case fails with "already exists",
\* and both failures leave the stored collection as it was.
C9_AddContract ==
    [][ req'.op = "add" =>
            LET value == Strip(req'.phrase)
                old == Stored(phrasesFile)
                new == Stored(phrasesFile')
                matches == \E i \in 1..Len(old) : LowerStr(old[i].value) = LowerStr(value)
            IN  /\ value = <<>> =>
                    /\ resp'.status = 400 /\ resp'.detail = "Phrase cannot be empty"
                    /\ phrasesFile' = phrasesFile
                /\ (value # <<>> /\ matches) =>
                    /\ resp'.status = 400 /\ resp'.detail = "Phrase already exists"
                    /\ phrasesFile' = phrasesFile
                /\ (value # <<>> /\ ~matches) =>
                    /\ resp'.status = 200
                    /\ \E i \in 1..Len(new) : new[i].value = value
      ]_vars

\* an add refused because the store holds the value in another letter case
C9_Witness ==
    /\ req.op = "add" /\ resp.status = 400 /\ resp.detail = "Phrase already exists"
    /\ \E i \in 1..Len(Stored(phrasesFile)) :
            /\ Stored(phrasesFile)[i].value # Strip(req.phrase)
            /\ LowerStr(Stored(phrasesFile)[i].value) = LowerStr(Strip(req.phrase))

\* C10: delete(id) on a store with an entry of that id removes it, so that list()
\* has no entry with the id, and leaves the other entries as they were and in the
\* same order; delete(id) with no such entry (a second delete, a missing store)
\* fails with 404 and leaves the stored collection as it was.
C10_DeleteContract ==
    [][ req'.op = "delete" =>
            LET old == Stored(phrasesFile)
                new == Stored(phrasesFile')
                Others(e) == e.id # req'.id
            IN  IF req'.id \in IdsOf(old)
                THEN /\ resp'.status = 200
                     /\ req'.id \notin IdsOf(new)
                     /\ new = SelectSeq(old, Others)
                ELSE /\ resp'.status = 404
                     /\ phrasesFile' = phrasesFile
      ]_vars

\* a delete that removed an entry which was not the first and left two others
C10_Witness ==
    /\ req.op = "delete" /\ resp.status = 200
    /\ Len(Stored(phrasesFile)) = 2
    /\ Stored(phrasesFile)[1].id < req.id

\* C3: two add calls with distinct values, running at once on an empty store, leave
\* it with exactly 2 entries whose ids are {1,2}, whatever the interleaving of their
\* read, assign-id and write steps (stated for the runs in which both calls report
\* success).
C3_ConcurrentAdds ==
    ( /\ \A c \in DOMAIN calls : calls[c].pc = "done" /\ calls[c].status = 200
      /\ \A c, d \in DOMAIN calls :
            c # d => LowerStr(Strip(calls[c].phrase)) # LowerStr(Strip(calls[d].phrase))
      /\ DOMAIN calls # {} )
    => ( /\ Len(Stored(phrasesFile)) = 2
         /\ IdsOf(Stored(phrasesFile)) = {1, 2} )

\* C4: every add, update or delete either stores the whole updated set and reports
\* success, or reports failure and leaves the stored collection exactly as it was
\* before the operation began.
C4_AllOrNothing ==
    [][ req'.op \in MutatingOps =>
            IF resp'.status = 200
            THEN phrasesFile'.st = "ok"
            ELSE phrasesFile' = phrasesFile
      ]_vars

\* whether every element of s occurs in t, in the order of s
RECURSIVE IsSubsequence(_, _)
IsSubsequence(s, t) ==
    IF s = <<>> THEN TRUE
    ELSE IF t = <<>> THEN FALSE
    ELSE IF Head(s) = Head(t) THEN IsSubsequence(Tail(s), Tail(t))
    ELSE IsSubsequence(s, Tail(t))

\* C5: every record appended with success is still in the log, as it was and in
\* append order, whenever the log can be read, also after an append that found the
\* file unreadable or malformed.
C5_LogKeepsRecords ==
    transFile.st # "corrupt" => IsSubsequence(appended, transFile.recs)

-----------------------------------------------------------------------------
(* Properties of the cleaner *)

\* the phrases of the store, as load_intent_phrases serves them
Served == load_intent_phrases(phrasesFile)

\* a /trans request that got a transcript
Transcribed == req.op = "trans" /\ req.phrase # <<>>

\* C6: clean is idempotent: cleaning the cleaned text again with the same phrases
\* changes nothing, and the cleaned text has no whole-word occurrence of any phrase.
C6_CleanIdempotent ==
    Transcribed =>
        /\ clean_text_remove_intent_phrases(resp.cleaned_text, Served) = resp.cleaned_text
        /\ \A k \in 1..Len(Served), i \in 1..Len(resp.cleaned_text) :
                ~MatchAt(Served[k], resp.cleaned_text, i)

\* the orders of the list `values` that have no shorter phrase before a longer one
LongestFirstOrders(values) ==
    LET n == Len(values)
        perms == {f \in [1..n -> 1..n] : \A i, j \in 1..n : i # j => f[i] # f[j]}
        orders == {[i \in 1..n |-> values[f[i]]] : f \in perms}
    IN  {q \in orders : \A i, j \in 1..n : i < j => Len(q[i]) >= Len(q[j])}

DistinctLengths(values) ==
    \A i, j \in 1..Len(values) : i # j => Len(values[i]) # Len(values[j])

\* C7: the text cleaned with the phrases the store serves depends only on the set of
\* phrases stored, not on their insertion order: it is the text cleaned with the
\* phrases in any order of descending length.
C7_OrderIndependent ==
    Transcribed =>
        \A q \in LongestFirstOrders(ExtractValues(Stored(phrasesFile))) :
            resp.cleaned_text = clean_text_remove_intent_phrases(resp.raw_text, q)

\* C7 as amended: the same, for a store in which no two phrases have the same length.
C7_OrderIndependentDistinctLengths ==
    (Transcribed /\ DistinctLengths(ExtractValues(Stored(phrasesFile)))) =>
        \A q \in LongestFirstOrders(ExtractValues(Stored(phrasesFile))) :
            resp.cleaned_text = clean_text_remove_intent_phrases(resp.raw_text, q)

\* a text cleaned with a store that holds a short phrase before a longer one, the
\* longer one found in the text
C7_Witness ==
    /\ Transcribed
    /\ Len(Stored(phrasesFile)) = 2
    /\ Len(Stored(phrasesFile)[1].value) < Len(Stored(phrasesFile)[2].value)
    /\ \E i \in 1..Len(resp.raw_text) : MatchAt(Stored(phrasesFile)[2].value, resp.raw_text, i)
    /\ resp.cleaned_text # resp.raw_text

-----------------------------------------------------------------------------
(* Properties of update, of the /trans flow and of the ids over time *)

\* C11: update(id, new_value) on a store with an entry of that id replaces only that
\* entry's value with the trimmed new_value: the entry keeps its id and its place,
\* and the other entries, their number and their order stay as they were; update
\* fails with "cannot be empty" when new_value is empty after trimming (checked
\* first) and with 404 when no entry has the id, and both failures leave the
\* stored collection as it was.
C11_UpdateContract ==
    [][ req'.op = "update" =>
            LET value == Strip(req'.phrase)
                old == Stored(phrasesFile)
                new == Stored(phrasesFile')
            IN  /\ value = <<>> =>
                    /\ resp'.status = 400 /\ resp'.detail = "Phrase cannot be empty"
                    /\ phrasesFile' = phrasesFile
                /\ (value # <<>> /\ req'.id \notin IdsOf(old)) =>
                    /\ resp'.status = 404
                    /\ phrasesFile' = phrasesFile
                /\ (value # <<>> /\ req'.id \in IdsOf(old)) =>
                    /\ resp'.status = 200
                    /\ Len(new) = Len(old)
                    /\ \A i \in 1..Len(old) :
                            /\ new[i].id = old[i].id
                            /\ new[i].value = IF old[i].id = req'.id THEN value ELSE old[i].value
      ]_vars

\* an update that gave a padded value to the first of three entries
C11_Witness ==
    /\ req.op = "update" /\ resp.status = 200
    /\ req.phrase # Strip(req.phrase)
    /\ Len(Stored(phrasesFile)) = 3
    /\ Stored(phrasesFile)[1].id = req.id
    /\ Stored(phrasesFile)[1].value = Strip(req.phrase)

\* what the log holds: the records of the file, none for a missing or unreadable one
Logged(file) == IF file.st = "ok" THEN file.recs ELSE <<>>

\* C12: in the /trans flow a record is appended only after the recogniser has
\* returned a transcript, exactly one per such request; when the recogniser fails
\* the response has empty raw and cleaned text and no transcription id, the log is
\* left as it was, and "could not understand the audio" is reported for
\* UnknownValueError and for no other failure.
C12_TransFlow ==
    [][ req'.op = "trans" =>
            IF req'.provided = "transcript"
            THEN /\ transFile'.st = "ok"
                 /\ Len(transFile'.recs) = Len(Logged(transFile)) + 1
                 /\ SubSeq(transFile'.recs, 1, Len(Logged(transFile))) = Logged(transFile)
                 /\ LET record == transFile'.recs[Len(transFile'.recs)]
                    IN  /\ record.raw_text = req'.phrase
                        /\ record.cleaned_text = resp'.cleaned_text
                        /\ record.id = resp'.transcription_id
                        /\ \A i \in 1..Len(Logged(transFile)) : Logged(transFile)[i].id # record.id
                 /\ resp'.raw_text = req'.phrase
                 /\ resp'.transcription_id # 0
            ELSE /\ transFile' = transFile
                 /\ appended' = appended
                 /\ resp'.raw_text = <<>>
                 /\ resp'.cleaned_text = <<>>
                 /\ resp'.transcription_id = 0
                 /\ (req'.provided = "UnknownValueError")
                        <=> (resp'.detail = "Could not understand the audio")
      ]_vars

\* the recogniser failed to understand the audio of a request that came after a
\* logged one
C12_Witness ==
    /\ req.op = "trans" /\ req.provided = "UnknownValueError"
    /\ resp.detail = "Could not understand the audio"
    /\ Len(Logged(transFile)) = 1
    /\ nTrans = 2

====
